---- MODULE Spec2Model ----
(***************************************************************************)
(* Message ingestion and conversation routing of HCTC-CRM.                 *)
(*                                                                         *)
(* State: the messages and conversations tables, and one record per        *)
(* request-handling thread (each thread has its own scoped session, so     *)
(* every commit of one thread is one atomic step against the tables).      *)
(* Text values are sequences of one-character strings, so that strip()     *)
(* and slicing are computed as Python computes them.                       *)
(***************************************************************************)
EXTENDS Integers, Sequences, FiniteSets, TLC

(* ------------------------------ bounds -------------------------------- *)
NumWorkers == 2
MaxMessages == 2
MaxEvents == 2

Workers == 1..NumWorkers

(* ------------------------------ text ---------------------------------- *)
\* Python None, kept apart from every text value (and from the empty text).
None == <<"None">>

Min(a, b) == IF a < b THEN a ELSE b

RECURSIVE lstrip(_)
lstrip(s) == IF s = <<>> THEN s
             ELSE IF Head(s) = " " THEN lstrip(Tail(s)) ELSE s

RECURSIVE rstrip(_)
rstrip(s) == IF s = <<>> THEN s
             ELSE IF s[Len(s)] = " " THEN rstrip(SubSeq(s, 1, Len(s) - 1)) ELSE s

\* str.strip()
strip(s) == rstrip(lstrip(s))

\* s taken whole, whatever its length
SliceWhole(s, n) == s

\* s[:n]
Slice(s, n) == SubSeq(s, 1, Min(n, Len(s)))

\* truth value of an Optional[str]: None and "" are falsy
Truthy(s) == s # None /\ s # <<>>

\* sanitize_input: drop < > " ', strip, cut to 1000 characters
SanitizeLen == 1000

IsSafeChar(ch) == ch \notin {"<", ">", "\"", "'"}

sanitize_input(text) ==
    IF ~Truthy(text) THEN <<>>
    ELSE Slice(strip(SelectSeq(text, IsSafeChar)), SanitizeLen)

Digits == {"0", "1", "2", "3", "4", "5", "6", "7", "8", "9"}

\* is_valid_phone_number: ^\+?[1-9]\d{1,14}$
is_valid_phone_number(phone) ==
    LET d == IF phone # <<>> /\ Head(phone) = "+" THEN Tail(phone) ELSE phone
    IN /\ Len(d) >= 2 /\ Len(d) <= 15
       /\ d[1] \in Digits \ {"0"}
       /\ \A i \in 2..Len(d) : d[i] \in Digits

AgentLen == 100
PlatformLen == 50
RecipientLen == 50

(* ----------------------------- initials -------------------------------- *)
LowerCase == <<"a", "b", "c", "d", "e", "f", "g", "h", "i", "j", "k", "l", "m",
               "n", "o", "p", "q", "r", "s", "t", "u", "v", "w", "x", "y", "z">>
UpperCase == <<"A", "B", "C", "D", "E", "F", "G", "H", "I", "J", "K", "L", "M",
               "N", "O", "P", "Q", "R", "S", "T", "U", "V", "W", "X", "Y", "Z">>

\* [A-Za-z]
IsLetter(ch) == \E i \in 1..26 : ch = LowerCase[i] \/ ch = UpperCase[i]

\* \w (what \b tells apart from the rest)
IsWord(ch) == IsLetter(ch) \/ ch \in Digits \/ ch = "_"

\* [:\-\s]
IsSep(ch) == ch \in {":", "-", " "}

\* str.upper() of one character
UpperChar(ch) ==
    IF \E i \in 1..26 : ch = LowerCase[i]
    THEN UpperCase[CHOOSE i \in 1..26 : ch = LowerCase[i]]
    ELSE ch

\* str.upper()
upper(s) == [i \in 1..Len(s) |-> UpperChar(s[i])]

\* the number of letters of s from index i on, up to the first non-letter
RECURSIVE LetterRun(_, _)
LetterRun(s, i) == IF i > Len(s) \/ ~IsLetter(s[i]) THEN 0
                   ELSE 1 + LetterRun(s, i + 1)

\* the number of [:\-\s] characters of s from index i on
RECURSIVE SepRun(_, _)
SepRun(s, i) == IF i > Len(s) \/ ~IsSep(s[i]) THEN 0
                ELSE 1 + SepRun(s, i + 1)

\* the number of blanks of s from index i on
RECURSIVE SpaceRun(_, _)
SpaceRun(s, i) == IF i > Len(s) \/ s[i] # " " THEN 0
                  ELSE 1 + SpaceRun(s, i + 1)

\* {2,5}: the lengths of a tag's letter group
MinInitials == 2
MaxInitials == 5

\* INITIALS_PATTERN_START without its \b: any 2 to 5 letters after the caret
StartGroupsUnbounded(text) ==
    LET caret == 1 + SpaceRun(text, 1)
    IN IF caret > Len(text) \/ text[caret] # "^" THEN {}
       ELSE {k \in MinInitials..MaxInitials : k <= LetterRun(text, caret + 1)}

\* INITIALS_PATTERN_START = ^\s*\^([A-Za-z]{2,5})\b[:\-\s]*: the lengths the
\* letter group may take: after blanks a caret, k letters, then a word boundary
StartGroups(text) ==
    LET caret == 1 + SpaceRun(text, 1)
    IN IF caret > Len(text) \/ text[caret] # "^" THEN {}
       ELSE {k \in MinInitials..MaxInitials :
                /\ k <= LetterRun(text, caret + 1)
                /\ \/ caret + k = Len(text)
                   \/ ~IsWord(text[caret + k + 1])}

\* INITIALS_PATTERN_END = [:\-\s]*\^([A-Za-z]{2,5})\s*$: the indexes where a
\* match may start: separators, a caret, 2 to 5 letters, blanks up to the end
EndStarts(text) ==
    {i \in 1..Len(text) :
        LET caret == i + SepRun(text, i)
            k == LetterRun(text, caret + 1)
        IN /\ caret <= Len(text)
           /\ text[caret] = "^"
           /\ k >= MinInitials /\ k <= MaxInitials
           /\ caret + k + SpaceRun(text, caret + k + 1) = Len(text)}

\* the pair extract_initials_and_strip returns
Extract(cleaned, initials) == [cleaned |-> cleaned, initials |-> initials]

\* extract_initials_and_strip
extract_initials_and_strip(content) ==
    IF ~Truthy(content) THEN Extract(<<>>, None)
    ELSE
    LET text == strip(content)
    IN IF StartGroups(text) # {}
       THEN LET caret == 1 + SpaceRun(text, 1)
                k == CHOOSE x \in StartGroups(text) : \A y \in StartGroups(text) : y <= x
                stop == caret + k + SepRun(text, caret + k + 1)
            IN Extract(strip(SubSeq(text, stop + 1, Len(text))),
                       upper(SubSeq(text, caret + 1, caret + k)))
       ELSE IF EndStarts(text) # {}
       THEN LET i == CHOOSE x \in EndStarts(text) : \A y \in EndStarts(text) : x <= y
                caret == i + SepRun(text, i)
            IN Extract(strip(SubSeq(text, 1, i - 1)),
                       upper(SubSeq(text, caret + 1,
                                    caret + LetterRun(text, caret + 1))))
       ELSE Extract(text, None)

(* --------------------------- input values ------------------------------ *)
Agent1 == <<"A", "1">>
Agent2 == <<"A", "2">>
Agents == {Agent1, Agent2}
\* the fallback agent of the router
DefaultAgent == Agent1

WhatsApp == <<"W", "A">>
Facebook == <<"F", "B">>
Platforms == {WhatsApp, Facebook}

Recipients == {<<"+", "1", "0", "0">>}
MessageIds == {<<"m", "1">>, <<"m", "2">>}
OptMessageIds == MessageIds \cup {None}
Text == <<"h", "i">>

(* ------------------------------ rows ----------------------------------- *)
\* Message row; its id is its index in messages, timestamp is the column
\* default (the clock at insert).
Message(agent, platform, recipient, content, message_id, is_incoming, timestamp) ==
    [agent |-> agent, platform |-> platform, recipient |-> recipient,
     content |-> content, message_id |-> message_id,
     is_incoming |-> is_incoming, timestamp |-> timestamp]

\* Conversation row built without passing message_count: the column default 0
ConversationDefaultCount(recipient, platform, agent, last_message_at, message_count) ==
    [recipient |-> recipient, platform |-> platform, agent |-> agent,
     last_message_at |-> last_message_at, message_count |-> 0,
     is_active |-> TRUE]

\* Conversation row; its id is its index in conversations.
Conversation(recipient, platform, agent, last_message_at, message_count) ==
    [recipient |-> recipient, platform |-> platform, agent |-> agent,
     last_message_at |-> last_message_at, message_count |-> message_count,
     is_active |-> TRUE]

\* AgentLeave.status: requested/approved/denied
Approved == <<"a", "p", "p">>
Requested == <<"r", "e", "q">>
Denied == <<"d", "e", "n">>

\* AgentLeave row of the table agent_leaves
AgentLeave(agent, start_date, end_date, status) ==
    [agent |-> agent, start_date |-> start_date, end_date |-> end_date,
     status |-> status]

VARIABLES messages, conversations, leaves, workers

vars == <<messages, conversations, leaves, workers>>

\* datetime.now() of the next insert: one tick per stored message
Now == Len(messages) + 1

(* ----------------------------- threads --------------------------------- *)
NoCall == [agent |-> None, platform |-> None, recipient |-> None,
           content |-> None, message_id |-> None, is_incoming |-> TRUE]

NoConv == [id |-> 0, agent |-> None, message_count |-> 0]

\* the row of a daily report sheet: Date, MessagesHandled, PhoneNumbers, OnLeave
Report(date, messages_handled, phone_numbers, on_leave) ==
    [date |-> date, messages_handled |-> messages_handled,
     phone_numbers |-> phone_numbers, on_leave |-> on_leave]

NoReport == Report(0, 0, <<>>, FALSE)

NoExtract == Extract(<<>>, None)

\* the dictionary get_message_statistics returns
Statistics(total_messages, platforms, agents, direction, hourly_activity, top_recipients) ==
    [total_messages |-> total_messages, platforms |-> platforms,
     agents |-> agents, direction |-> direction,
     hourly_activity |-> hourly_activity, top_recipients |-> top_recipients]

NoStatistics == Statistics(0, <<>>, <<>>, <<>>, <<>>, <<>>)

\* the dictionary get_agent_performance returns
Performance(agent, total_messages, incoming_messages, outgoing_messages, platforms, unique_recipients) ==
    [agent |-> agent, total_messages |-> total_messages,
     incoming_messages |-> incoming_messages,
     outgoing_messages |-> outgoing_messages, platforms |-> platforms,
     unique_recipients |-> unique_recipients]

NoPerformance == Performance(None, 0, 0, 0, <<>>, 0)

Idle == [op |-> "idle", pc |-> "idle", platform |-> None, entry |-> <<>>,
         todo |-> <<>>, call |-> NoCall, msg |-> 0, conv |-> NoConv,
         result |-> "none", status |-> 0, body |-> None, report |-> NoReport,
         extracted |-> NoExtract, skipped |-> FALSE, rows |-> <<>>,
         threads |-> <<>>, statistics |-> NoStatistics,
         performance |-> NoPerformance]

\* messages a thread may still insert
Pending(wk) == IF wk.pc \in {"idle", "done"} THEN 0
               ELSE IF wk.op = "webhook" THEN Len(wk.todo) - (IF wk.msg > 0 THEN 1 ELSE 0)
               ELSE IF wk.msg > 0 THEN 0 ELSE 1

RECURSIVE SumPending(_)
SumPending(S) == IF S = {} THEN 0
                 ELSE LET w == CHOOSE x \in S : TRUE
                      IN Pending(workers[w]) + SumPending(S \ {w})

\* room for n more message rows within MaxMessages
Room(n) == Len(messages) + SumPending(Workers) + n <= MaxMessages

(* --------------------------- webhook payloads -------------------------- *)
\* One message event of a payload: a WhatsApp message ("from", "id"), a
\* Messenger message ("sender.id", "message.mid") or a Messenger postback.
Event(from, id, kind) == [from |-> from, id |-> id, kind |-> kind]

\* Messages carry the platform's message id; a postback carries none
\* (postback.get("mid") is None).
EventsOf(platform) ==
    {Event(r, m, "message") : r \in Recipients, m \in MessageIds}
    \cup (IF platform = Facebook
          THEN {Event(r, None, "postback") : r \in Recipients} ELSE {})

\* all sequences over S of length 1..n
RECURSIVE SeqsUpTo(_, _)
SeqsUpTo(S, n) == IF n = 0 THEN {}
                  ELSE {<<x>> : x \in S}
                       \cup {Append(s, x) : s \in SeqsUpTo(S, n - 1), x \in S}

\* the ways to cut a sequence into consecutive non-empty pieces
RECURSIVE Chunks(_)
Chunks(s) == IF s = <<>> THEN {<<>>}
             ELSE UNION {{<<SubSeq(s, 1, k)>> \o rest :
                             rest \in Chunks(SubSeq(s, k + 1, Len(s)))} :
                         k \in 1..Len(s)}

RECURSIVE Flatten(_)
Flatten(ss) == IF ss = <<>> THEN <<>> ELSE Head(ss) \o Flatten(Tail(ss))

\* data["entry"] of a WhatsApp payload: entries of changes of messages
WhatsAppEntries ==
    UNION {{e \in [1..Len(es) -> UNION {Chunks(es[i]) : i \in 1..Len(es)}] :
               \A i \in 1..Len(es) : e[i] \in Chunks(es[i])} :
           es \in UNION {Chunks(evs) : evs \in SeqsUpTo(EventsOf(WhatsApp), MaxEvents)}}

\* data["entry"] of a Messenger payload: entries of messaging events
FacebookEntries ==
    UNION {Chunks(evs) : evs \in SeqsUpTo(EventsOf(Facebook), MaxEvents)}

\* the events the handlers iterate over: entry = data["entry"][0] only
HandledEvents(platform, entry) ==
    IF platform = WhatsApp THEN Flatten(entry[1]) ELSE entry[1]

\* every message event the payload carries
RECURSIVE PayloadEvents(_, _)
PayloadEvents(platform, entry) ==
    IF entry = <<>> THEN <<>>
    ELSE (IF platform = WhatsApp THEN Flatten(Head(entry)) ELSE Head(entry))
         \o PayloadEvents(platform, Tail(entry))

(* ------------------------- MessageService ------------------------------ *)
\* The request is over: what stays of the thread is what its caller observes
\* (result, HTTP status), the request it answered and the row it stored.
Done(wk, result, status) ==
    [Idle EXCEPT !.op = wk.op, !.pc = "done", !.platform = wk.platform,
                 !.entry = wk.entry, !.msg = wk.msg, !.skipped = wk.skipped,
                 !.result = result, !.status = status]

\* _process_whatsapp_message / _process_facebook_message up to their first
\* use of the message service, for the event at the head of todo: a message
\* is routed by resolve_incoming_agent, a postback is logged under "Agent1".
StartEvent(wk) ==
    LET ev == Head(wk.todo)
    IN [wk EXCEPT !.pc = IF ev.kind = "postback" THEN "log_message" ELSE "resolve",
                  !.call = [agent |-> IF ev.kind = "postback" THEN Agent1 ELSE None,
                            platform |-> wk.platform, recipient |-> ev.from,
                            content |-> sanitize_input(Text), message_id |-> ev.id,
                            is_incoming |-> TRUE],
                  !.msg = 0, !.conv = NoConv, !.skipped = FALSE,
                  !.result = "none"]

\* What the caller of log_message gets when it returns normally: the webhook
\* handlers go on with the next event of the loop and answer 200 after the
\* last one, /send answers 200.
Returned(wk) ==
    IF wk.op = "webhook" /\ Tail(wk.todo) # <<>>
    THEN StartEvent([wk EXCEPT !.todo = Tail(wk.todo)])
    ELSE Done(wk, "ok", IF wk.op = "record" THEN 0 ELSE 200)

\* What the caller gets when log_message raises: the direct caller sees the
\* exception, the Flask views answer 500.
Raised(wk, exc) == Done(wk, exc, IF wk.op = "record" THEN 0 ELSE 500)

\* the checks of log_message before the session is opened
Validation(c) ==
    IF ~Truthy(c.agent) \/ ~Truthy(c.platform) \/ ~Truthy(c.recipient) \/ ~Truthy(c.content)
    THEN "ValueError"
    ELSE IF strip(c.content) = <<>> THEN "ValueError" ELSE "ok"

\* messages.message_id without its unique index
UniqueViolationUnchecked(message_id) == FALSE

\* the unique index on messages.message_id (NULLs do not collide)
UniqueViolation(message_id) ==
    /\ message_id # None
    /\ \E i \in DOMAIN messages : messages[i].message_id = message_id

\* log_message over a unique index in which absent ids collide as well
LogMessageNullsCollide(w, wk) ==
    LET c == wk.call
    IN IF Validation(c) # "ok"
       THEN /\ workers' = [workers EXCEPT ![w] = Raised(wk, Validation(c))]
            /\ UNCHANGED <<messages, conversations, leaves>>
       ELSE IF \E i \in DOMAIN messages : messages[i].message_id = c.message_id
       THEN /\ workers' = [workers EXCEPT ![w] = Raised(wk, "IntegrityError")]
            /\ UNCHANGED <<messages, conversations, leaves>>
       ELSE /\ messages' = Append(messages,
                   Message(Slice(strip(c.agent), AgentLen),
                           Slice(strip(c.platform), PlatformLen),
                           Slice(strip(c.recipient), RecipientLen),
                           strip(c.content), c.message_id, c.is_incoming, Now))
            /\ workers' = [workers EXCEPT ![w] =
                              [wk EXCEPT !.pc = "update_conversation",
                                         !.msg = Len(messages) + 1]]
            /\ UNCHANGED <<conversations, leaves>>

\* log_message from its first line up to and including the commit of the
\* Message row, run by thread w whose record (with the call's arguments) is wk
LogMessage(w, wk) ==
    LET c == wk.call
    IN IF Validation(c) # "ok"
       THEN /\ workers' = [workers EXCEPT ![w] = Raised(wk, Validation(c))]
            /\ UNCHANGED <<messages, conversations, leaves>>
       ELSE IF UniqueViolation(c.message_id)
       THEN /\ workers' = [workers EXCEPT ![w] = Raised(wk, "IntegrityError")]
            /\ UNCHANGED <<messages, conversations, leaves>>
       ELSE /\ messages' = Append(messages,
                   Message(Slice(strip(c.agent), AgentLen),
                           Slice(strip(c.platform), PlatformLen),
                           Slice(strip(c.recipient), RecipientLen),
                           strip(c.content), c.message_id, c.is_incoming, Now))
            /\ workers' = [workers EXCEPT ![w] =
                              [wk EXCEPT !.pc = "update_conversation",
                                         !.msg = Len(messages) + 1]]
            /\ UNCHANGED <<conversations, leaves>>

\* log_message over an index that is unique per (platform, recipient) only
log_message_scoped(w) ==
    LET wk == workers[w]
        c == wk.call
    IN /\ wk.pc = "log_message"
       /\ IF Validation(c) # "ok"
          THEN /\ workers' = [workers EXCEPT ![w] = Raised(wk, Validation(c))]
               /\ UNCHANGED <<messages, conversations, leaves>>
          ELSE IF /\ c.message_id # None
                  /\ \E i \in DOMAIN messages :
                        /\ messages[i].message_id = c.message_id
                        /\ messages[i].platform = Slice(strip(c.platform), PlatformLen)
                        /\ messages[i].recipient = Slice(strip(c.recipient), RecipientLen)
          THEN /\ workers' = [workers EXCEPT ![w] = Raised(wk, "IntegrityError")]
               /\ UNCHANGED <<messages, conversations, leaves>>
          ELSE /\ messages' = Append(messages,
                      Message(Slice(strip(c.agent), AgentLen),
                              Slice(strip(c.platform), PlatformLen),
                              Slice(strip(c.recipient), RecipientLen),
                              strip(c.content), c.message_id, c.is_incoming, Now))
               /\ workers' = [workers EXCEPT ![w] =
                                 [wk EXCEPT !.pc = "update_conversation",
                                            !.msg = Len(messages) + 1]]
               /\ UNCHANGED <<conversations, leaves>>

\* log_message called by a webhook handler or by /send
log_message(w) ==
    /\ workers[w].pc = "log_message"
    /\ LogMessage(w, workers[w])

\* log_message when the session cannot commit the Message row: the exception
\* leaves log_message, nothing is stored
log_message_fails(w) ==
    /\ workers[w].pc = "log_message"
    /\ Validation(workers[w].call) = "ok"
    /\ workers' = [workers EXCEPT ![w] = Raised(workers[w], "DatabaseError")]
    /\ UNCHANGED <<messages, conversations, leaves>>

\* the filter of the Conversation query without its platform condition
ConversationsOfRecipient(recipient, platform) ==
    {i \in DOMAIN conversations : conversations[i].recipient = recipient}

\* ids of the Conversation rows of a (recipient, platform) pair
ConversationsOf(recipient, platform) ==
    {i \in DOMAIN conversations : /\ conversations[i].recipient = recipient
                                  /\ conversations[i].platform = platform}

\* _update_conversation: the query ... .first() (no ORDER BY: any matching row)
update_conversation_query(w) ==
    LET wk == workers[w]
        m == messages[wk.msg]
        found == ConversationsOf(m.recipient, m.platform)
    IN /\ wk.pc = "update_conversation"
       /\ UNCHANGED <<messages, conversations, leaves>>
       /\ IF found = {}
          THEN workers' = [workers EXCEPT ![w].pc = "commit_conversation",
                                          ![w].conv = NoConv]
          ELSE \E i \in found :
                 workers' = [workers EXCEPT
                               ![w].pc = "commit_conversation",
                               ![w].conv = [id |-> i,
                                            agent |-> conversations[i].agent,
                                            message_count |-> conversations[i].message_count]]

\* _update_conversation: the branch on the loaded row and session.commit().
\* The unit of work writes the attributes whose value differs from the loaded
\* one: message_count (loaded + 1) and last_message_at always, agent only when
\* the message's agent is not the loaded agent.
update_conversation_commit(w) ==
    LET wk == workers[w]
        m == messages[wk.msg]
    IN /\ wk.pc = "commit_conversation"
       /\ IF wk.conv.id = 0
          THEN conversations' = Append(conversations,
                   Conversation(m.recipient, m.platform, m.agent, m.timestamp, 1))
          ELSE conversations' =
                   [conversations EXCEPT ![wk.conv.id] =
                       [@ EXCEPT !.agent = IF wk.conv.agent # m.agent THEN m.agent ELSE @,
                                 !.last_message_at = m.timestamp,
                                 !.message_count = wk.conv.message_count + 1]]
       /\ workers' = [workers EXCEPT ![w] = Returned(wk)]
       /\ UNCHANGED <<messages, leaves>>

\* _update_conversation when its query or its commit raises: the except
\* clause logs and does not raise, log_message returns the Message
update_conversation_fails(w) ==
    /\ workers[w].pc \in {"update_conversation", "commit_conversation"}
    /\ workers' = [workers EXCEPT ![w] = Returned([workers[w] EXCEPT !.skipped = TRUE])]
    /\ UNCHANGED <<messages, conversations, leaves>>

\* The arguments of direct calls of log_message (as the tests make them):
\* present, missing, empty, blank and padded values
CallAgents == {None, <<" ">>, Agent1, <<" ">> \o Agent2}
CallPlatforms == {<<>>, <<" ", " ">>, WhatsApp, Facebook \o <<" ">>}
CallRecipients == Recipients \cup {None, <<" ">>}
CallContents == {None, <<" ">>, Text \o <<" ">>}

Call(agent, platform, recipient, content, message_id, is_incoming) ==
    [agent |-> agent, platform |-> platform, recipient |-> recipient,
     content |-> content, message_id |-> message_id, is_incoming |-> is_incoming]

Calls == {Call(a, p, r, c, m, i) : a \in CallAgents, p \in CallPlatforms,
              r \in CallRecipients, c \in CallContents,
              m \in OptMessageIds, i \in BOOLEAN}

\* A direct call of log_message by in-process code, up to the commit of the
\* Message row.
record(w) ==
    /\ workers[w].pc = "idle"
    /\ Room(1)
    /\ \E c \in Calls : LogMessage(w, [Idle EXCEPT !.op = "record", !.call = c])

\* The record calls of several messages of one conversation: the same
\* recipient and platform, no platform message id, either agent.
MaxTouches == 4

TouchCalls == {Call(a, WhatsApp, r, Text, None, FALSE) : a \in Agents, r \in Recipients}

touch_record(w) ==
    /\ workers[w].pc = "idle"
    /\ Len(messages) + SumPending(Workers) + 1 <= MaxTouches
    /\ \E c \in TouchCalls : LogMessage(w, [Idle EXCEPT !.op = "record", !.call = c])

\* Direct calls that record a Messenger message under the second agent (as
\* the tests make them), which makes that agent the owner of the conversation
FacebookCalls == {Call(Agent2, Facebook, r, Text, None, i) : r \in Recipients, i \in BOOLEAN}

facebook_record(w) ==
    /\ workers[w].pc = "idle"
    /\ Room(1)
    /\ \E c \in FacebookCalls : LogMessage(w, [Idle EXCEPT !.op = "record", !.call = c])

\* Direct calls that record a message of another recipient under a platform
\* message id, on either platform
OtherRecipient == <<"+", "2", "0", "0">>

DedupCalls == {Call(Agent1, p, OtherRecipient, Text, m, TRUE) :
                  p \in Platforms, m \in MessageIds}

dedup_record(w) ==
    /\ workers[w].pc = "idle"
    /\ Room(1)
    /\ \E c \in DedupCalls : LogMessage(w, [Idle EXCEPT !.op = "record", !.call = c])

\* Direct calls of log_message with values longer than the columns: an agent
\* of AgentLen + 1 characters, a platform of PlatformLen + 1 characters, two
\* recipients of RecipientLen + 1 characters that differ in the last one only,
\* and a padded recipient whose trimmed text has RecipientLen characters
LongAgent == [i \in 1..(AgentLen + 1) |-> "A"]
LongPlatform == [i \in 1..(PlatformLen + 1) |-> "W"]
LongRecipient(last) == [i \in 1..RecipientLen |-> "9"] \o <<last>>
PaddedRecipient == <<" ">> \o [i \in 1..RecipientLen |-> "9"] \o <<" ">>

TruncateCalls ==
    {Call(a, p, r, Text, None, FALSE) :
        a \in {Agent1, LongAgent}, p \in {WhatsApp, LongPlatform},
        r \in Recipients \cup {LongRecipient("1"), LongRecipient("2"), PaddedRecipient}}

truncate_record(w) ==
    /\ workers[w].pc = "idle"
    /\ Room(1)
    /\ \E c \in TruncateCalls : LogMessage(w, [Idle EXCEPT !.op = "record", !.call = c])

(* ------------------------------ router --------------------------------- *)
\* The agents resolve_incoming_agent may return for a pair: the owner of the
\* pair's Conversation row when it has one, else the default agent.
ResolveResults(recipient, platform) ==
    IF ConversationsOf(recipient, platform) = {} THEN {DefaultAgent}
    ELSE {IF Truthy(conversations[i].agent) THEN conversations[i].agent ELSE DefaultAgent :
             i \in ConversationsOf(recipient, platform)}

\* a router that creates the pair's Conversation when it finds none
resolve_incoming_agent_creates(w) ==
    LET wk == workers[w]
    IN /\ wk.pc = "resolve"
       /\ \E agent \in ResolveResults(wk.call.recipient, wk.call.platform) :
            workers' = [workers EXCEPT ![w].pc = "log_message", ![w].call.agent = agent]
       /\ conversations' =
             IF ConversationsOf(wk.call.recipient, wk.call.platform) = {}
             THEN Append(conversations,
                         Conversation(wk.call.recipient, wk.call.platform,
                                      DefaultAgent, 0, 0))
             ELSE conversations
       /\ UNCHANGED <<messages, leaves>>

resolve_incoming_agent(w) ==
    LET wk == workers[w]
    IN /\ wk.pc = "resolve"
       /\ \E agent \in ResolveResults(wk.call.recipient, wk.call.platform) :
            workers' = [workers EXCEPT ![w].pc = "log_message", ![w].call.agent = agent]
       /\ UNCHANGED <<messages, conversations, leaves>>

\* a router that lets the failure of its Conversation lookup out
resolve_incoming_agent_raises(w) ==
    /\ workers[w].pc = "resolve"
    /\ workers' = [workers EXCEPT ![w] = Raised(workers[w], "DatabaseError")]
    /\ UNCHANGED <<messages, conversations, leaves>>

\* resolve_incoming_agent when its Conversation lookup fails: RoutingDegraded
\* is logged (kept in result while the event is handled) and the default
\* agent is returned
resolve_incoming_agent_fails(w) ==
    /\ workers[w].pc = "resolve"
    /\ workers' = [workers EXCEPT ![w].pc = "log_message",
                                  ![w].call.agent = DefaultAgent,
                                  ![w].result = "RoutingDegraded"]
    /\ UNCHANGED <<messages, conversations, leaves>>

(* ----------------------------- Flask views ----------------------------- *)
\* POST /webhook with a well-formed WhatsApp or Messenger payload
webhook(w) ==
    /\ workers[w].pc = "idle"
    /\ \E platform \in Platforms :
         \E entry \in IF platform = WhatsApp THEN WhatsAppEntries ELSE FacebookEntries :
            /\ Room(Len(HandledEvents(platform, entry)))
            /\ workers' = [workers EXCEPT ![w] =
                             StartEvent([Idle EXCEPT !.op = "webhook", !.platform = platform,
                                                     !.entry = entry,
                                                     !.todo = HandledEvents(platform, entry)])]
    /\ UNCHANGED <<messages, conversations, leaves>>

\* The payloads the platform delivers again: one entry with one change whose
\* messages carry distinct platform ids.
RedeliveredEntries ==
    {<<<<evs>>>> : evs \in {e \in SeqsUpTo(EventsOf(WhatsApp), MaxEvents) :
                               \A i, j \in 1..Len(e) : e[i].id = e[j].id => i = j}}

\* POST /webhook with such a payload, for the first time
deliver(w) ==
    /\ workers[w].pc = "idle"
    /\ \E entry \in RedeliveredEntries :
          workers' = [workers EXCEPT ![w] =
                         StartEvent([Idle EXCEPT !.op = "webhook", !.platform = WhatsApp,
                                                 !.entry = entry,
                                                 !.todo = HandledEvents(WhatsApp, entry)])]
    /\ UNCHANGED <<messages, conversations, leaves>>

\* The platform posts the same payload again after an answer that is not 200
redeliver(w) ==
    LET wk == workers[w]
    IN /\ wk.op = "webhook" /\ wk.pc = "done" /\ wk.status # 200
       /\ workers' = [workers EXCEPT ![w] =
                         StartEvent([Idle EXCEPT !.op = "webhook", !.platform = wk.platform,
                                                 !.entry = wk.entry,
                                                 !.todo = HandledEvents(wk.platform, wk.entry)])]
       /\ UNCHANGED <<messages, conversations, leaves>>

\* config.webhook.verify_token
VerifyToken == <<"v", "t">>

\* the body of the 500 answer: {"error": "Internal server error"}
InternalServerError == <<"e", "r", "r">>

\* GET /webhook with the query parameters hub.verify_token and hub.challenge
\* (None when absent).  abort(400) and the Unauthorized of
\* handle_verification are raised inside the view's try block, whose
\* "except Exception" answers 500.
WebhookGet(w, verify_token, challenge) ==
    LET wk == [Idle EXCEPT !.op = "verify"]
    IN /\ workers[w].pc = "idle"
       /\ UNCHANGED <<messages, conversations, leaves>>
       /\ IF ~Truthy(verify_token) \/ ~Truthy(challenge)
          THEN workers' = [workers EXCEPT ![w] =
                   [Done(wk, "BadRequest", 500) EXCEPT !.body = InternalServerError]]
          ELSE IF verify_token = VerifyToken
          THEN workers' = [workers EXCEPT ![w] =
                   [Done(wk, "ok", 200) EXCEPT !.body = challenge]]
          ELSE workers' = [workers EXCEPT ![w] =
                   [Done(wk, "Unauthorized", 500) EXCEPT !.body = InternalServerError]]

Tokens == {None, <<>>, VerifyToken, <<"x">>}
Challenges == {None, <<"c", "1">>, <<"c", "2">>}

webhook_verify(w) ==
    \E verify_token \in Tokens, challenge \in Challenges :
        WebhookGet(w, verify_token, challenge)

\* A request body of POST /webhook (Content-Type application/json) that is
\* not a well-formed platform payload.  kind: "empty" (no bytes), "text" (no
\* JSON), or the JSON value: "null", "number", "array", "object"; object and
\* entry describe a JSON object: its "object" value and its "entry" value
\* ("absent", "string", "empty" list, or a list whose first element is
\* "null", a "number", a "string" or an "object" without the key changes).
Body(kind, object, entry) == [kind |-> kind, object |-> object, entry |-> entry]

MalformedBodies ==
    {Body(k, "absent", "absent") : k \in {"empty", "text", "null", "number", "array"}}
    \cup {Body("object", o, e) :
             o \in {"absent", "other", "whatsapp_business_account"},
             e \in {"absent", "string", "empty", "null", "number", "object"}}
    \cup {Body("object", "page", e) : e \in {"absent", "string", "empty"}}

\* validate_whatsapp_payload: "in" on a number or null raises TypeError
validate_whatsapp_payload(data) ==
    IF data.entry = "absent" THEN "False"
    ELSE IF data.object # "whatsapp_business_account" THEN "False"
    ELSE IF data.entry \in {"string", "empty"} THEN "False"
    ELSE IF data.entry \in {"null", "number"} THEN "TypeError"
    ELSE "False"

\* validate_facebook_payload
validate_facebook_payload(data) ==
    IF data.entry = "absent" THEN "False"
    ELSE IF data.object # "page" THEN "False"
    ELSE IF data.entry \in {"string", "empty"} THEN "False"
    ELSE "True"

\* the exception POST /webhook ends with for a body of MalformedBodies
WebhookPostError(data) ==
    IF data.kind \in {"empty", "text"} THEN "BadRequest"
    ELSE IF data.kind = "null" THEN "BadRequest"
    ELSE IF data.kind \in {"number", "array"} THEN "AttributeError"
    ELSE IF data.object = "absent" /\ data.entry = "absent" THEN "BadRequest"
    ELSE IF data.object = "whatsapp_business_account"
    THEN (IF validate_whatsapp_payload(data) = "False" THEN "BadRequest" ELSE "TypeError")
    ELSE IF data.object = "page"
    THEN (IF validate_facebook_payload(data) = "False" THEN "BadRequest" ELSE "ok")
    ELSE "BadRequest"

\* POST /webhook with a body that is not a well-formed platform payload:
\* BadRequest is answered 400, any other exception 500
WebhookPost(w, data) ==
    LET wk == [Idle EXCEPT !.op = "webhook_post"]
        exc == WebhookPostError(data)
    IN /\ workers[w].pc = "idle"
       /\ exc # "ok"
       /\ workers' = [workers EXCEPT ![w] =
                         Done(wk, exc, IF exc = "BadRequest" THEN 400 ELSE 500)]
       /\ UNCHANGED <<messages, conversations, leaves>>

webhook_malformed(w) == \E data \in MalformedBodies : WebhookPost(w, data)

BadPhone == <<"+", "0", "1">>

\* the values of "agent" and "to" in the body of POST /send
SendAgents == Agents \cup {<<>>}
SendNumbers == Recipients \cup {BadPhone}

\* POST /send that records the message before it knows the Cloud API's answer
SendMessageLogsFirst(w, agent, to, sent, message_id) ==
    LET wk == [Idle EXCEPT !.op = "send", !.platform = WhatsApp]
        log == [wk EXCEPT !.pc = "log_message",
                          !.call = [agent |-> sanitize_input(agent),
                                    platform |-> WhatsApp,
                                    recipient |-> sanitize_input(to),
                                    content |-> sanitize_input(Text),
                                    message_id |-> message_id,
                                    is_incoming |-> FALSE]]
    IN /\ workers[w].pc = "idle"
       /\ UNCHANGED <<messages, conversations, leaves>>
       /\ IF ~Truthy(sanitize_input(agent)) \/ ~Truthy(sanitize_input(to))
             \/ ~is_valid_phone_number(sanitize_input(to))
          THEN /\ ~sent /\ message_id = None
               /\ workers' = [workers EXCEPT ![w] = Done(wk, "none", 400)]
          ELSE IF ~sent
          THEN /\ message_id = None
               /\ Room(1)
               /\ workers' = [workers EXCEPT ![w] = log]
          ELSE /\ Room(1)
               /\ workers' = [workers EXCEPT ![w] = log]

\* POST /send up to the call of log_message: the checks of the body, the
\* call of the Cloud API (sent: it answers below 400, with an optional
\* message id)
SendMessage(w, agent, to, sent, message_id) ==
    LET wk == [Idle EXCEPT !.op = "send", !.platform = WhatsApp]
        log == [wk EXCEPT !.pc = "log_message",
                          !.call = [agent |-> sanitize_input(agent),
                                    platform |-> WhatsApp,
                                    recipient |-> sanitize_input(to),
                                    content |-> sanitize_input(Text),
                                    message_id |-> message_id,
                                    is_incoming |-> FALSE]]
    IN /\ workers[w].pc = "idle"
       /\ UNCHANGED <<messages, conversations, leaves>>
       /\ IF ~Truthy(sanitize_input(agent)) \/ ~Truthy(sanitize_input(to))
             \/ ~is_valid_phone_number(sanitize_input(to))
          THEN /\ ~sent /\ message_id = None
               /\ workers' = [workers EXCEPT ![w] = Done(wk, "none", 400)]
          ELSE IF ~sent
          THEN /\ message_id = None
               /\ workers' = [workers EXCEPT ![w] = Done(wk, "none", 502)]
          ELSE /\ Room(1)
               /\ workers' = [workers EXCEPT ![w] = log]

send_message(w) ==
    \E agent \in SendAgents, to \in SendNumbers,
       sent \in BOOLEAN, message_id \in OptMessageIds :
        SendMessage(w, agent, to, sent, message_id)

(* ------------------------------- time ---------------------------------- *)
\* Instants are clock ticks; a day (timedelta(days=1)) is DayLen ticks long.
DayLen == 2

\* the day taken as it was parsed, its time of day kept
StartOfDayKeepsTime(t) == t

\* day.replace(hour=0, minute=0, second=0, microsecond=0)
StartOfDay(t) == t - (t % DayLen)

\* The ISO text of an instant, and a text that is no date.
isoformat(t) == <<"T", t>>
BadDate == <<"n", "a", "d">>

\* datetime.fromisoformat(s) raises ValueError unless s is the text of a date
IsIsoDate(s) == Len(s) = 2 /\ s[1] = "T"

\* datetime.fromisoformat(s) of the text of a date
fromisoformat(s) == s[2]

(* ------------------------------- team ---------------------------------- *)
\* The JSON body of POST /team/leaves; a key that is absent is None.
LeaveRequest(agent, start_date, end_date, status) ==
    [agent |-> agent, start_date |-> start_date, end_date |-> end_date,
     status |-> status]

\* The bodies sent at instant Now: start in 2 days, one tick less than 7
\* days, 7 days and 8 days ahead, an end one day after the start.
LeaveRequests ==
    {LeaveRequest(a, s, e, st) :
        a \in {None, Agent2},
        s \in {None, BadDate} \cup {isoformat(Now + d) :
                   d \in {2 * DayLen, 7 * DayLen - 1, 7 * DayLen, 8 * DayLen}},
        e \in {None, isoformat(Now + 9 * DayLen)},
        st \in {None, Requested}}

\* create_leave for the body rq.  The AgentLeave row is added to a session
\* that db_manager.get_session (its second definition) hands out as it is:
\* leaving the with block closes the session and nothing commits the row.
CreateLeave(w, rq) ==
    LET wk == [Idle EXCEPT !.op = "create_leave"]
        agent == strip(IF Truthy(rq.agent) THEN rq.agent ELSE <<>>)
    IN /\ workers[w].pc = "idle"
       /\ UNCHANGED <<messages, conversations, leaves>>
       /\ IF ~Truthy(agent) \/ ~Truthy(rq.start_date) \/ ~Truthy(rq.end_date)
          THEN workers' = [workers EXCEPT ![w] = Done(wk, "none", 400)]
          ELSE IF ~IsIsoDate(rq.start_date) \/ ~IsIsoDate(rq.end_date)
          THEN workers' = [workers EXCEPT ![w] = Done(wk, "ValueError", 500)]
          ELSE workers' = [workers EXCEPT ![w] = Done(wk, "ok", 200)]

\* POST /team/leaves
create_leave(w) == \E rq \in LeaveRequests : CreateLeave(w, rq)

(* ------------------------------ reports -------------------------------- *)
\* the Message rows a daily report queries: agent, direction and
\* start <= timestamp < start + one day
DailyRows(agent_name, is_incoming, start) ==
    {i \in DOMAIN messages :
        /\ messages[i].agent = agent_name
        /\ messages[i].is_incoming = is_incoming
        /\ messages[i].timestamp >= start
        /\ messages[i].timestamp < start + DayLen}

\* the loop over the rows (in id order) that collects phone_numbers: a row's
\* recipient is appended when it is truthy and not yet in the list
RECURSIVE PhoneNumbers(_, _, _)
PhoneNumbers(rows, i, phone_numbers) ==
    IF i > Len(messages) THEN phone_numbers
    ELSE IF /\ i \in rows
            /\ Truthy(messages[i].recipient)
            /\ \A k \in DOMAIN phone_numbers : phone_numbers[k] # messages[i].recipient
    THEN PhoneNumbers(rows, i + 1, Append(phone_numbers, messages[i].recipient))
    ELSE PhoneNumbers(rows, i + 1, phone_numbers)

\* MessageService.is_agent_on_leave(agent, at): an approved leave of the
\* agent whose [start_date, end_date) holds the instant
is_agent_on_leave(agent, at) ==
    \E i \in DOMAIN leaves :
        /\ leaves[i].agent = agent
        /\ leaves[i].status = Approved
        /\ leaves[i].start_date <= at
        /\ at < leaves[i].end_date

\* GET /reports/agent-daily-excel (outgoing rows, op "daily") and GET
\* /reports/agent-handled-daily-excel (incoming rows, op "handled") with the
\* query parameters agent and date (None when absent)
DailyExcel(w, op, is_incoming, agent_name, date_str) ==
    LET wk == [Idle EXCEPT !.op = op]
        day == IF Truthy(date_str) THEN fromisoformat(date_str) ELSE Now
        start == StartOfDay(day)
        rows == DailyRows(agent_name, is_incoming, start)
    IN /\ workers[w].pc = "idle"
       /\ UNCHANGED <<messages, conversations, leaves>>
       /\ IF ~Truthy(agent_name)
          THEN workers' = [workers EXCEPT ![w] = Done(wk, "none", 400)]
          ELSE IF Truthy(date_str) /\ ~IsIsoDate(date_str)
          THEN workers' = [workers EXCEPT ![w] = Done(wk, "none", 400)]
          ELSE workers' = [workers EXCEPT ![w] =
                  [Done(wk, "ok", 200) EXCEPT !.report =
                      Report(start, Cardinality(rows), PhoneNumbers(rows, 1, <<>>),
                             is_agent_on_leave(agent_name, start))]]

\* the query parameters: a date with a time of day in the first day, the
\* start of the second day and a time in it; without date the day is today
ReportAgents == {None, Agent1}
ReportDates == {None, BadDate} \cup {isoformat(t) : t \in 1..(2 * DayLen - 1)}

agent_daily_excel(w) ==
    \E agent_name \in ReportAgents, date_str \in ReportDates :
        DailyExcel(w, "daily", FALSE, agent_name, date_str)

agent_handled_daily_excel(w) ==
    \E agent_name \in ReportAgents, date_str \in ReportDates :
        DailyExcel(w, "handled", TRUE, agent_name, date_str)

\* Direct calls of log_message that fill the tables the reports read
TeamRecipients == Recipients \cup {<<"+", "2", "0", "0">>, <<" ">>}

TeamCalls == {Call(a, WhatsApp, r, Text, None, i) :
                 a \in Agents, r \in TeamRecipients, i \in BOOLEAN}

team_record(w) ==
    /\ workers[w].pc = "idle"
    /\ Room(1)
    /\ \E c \in TeamCalls : LogMessage(w, [Idle EXCEPT !.op = "record", !.call = c])

\* agent_leaves as the database holds it: no leave, an approved leave of
\* Agent1 over the first day, from inside the first day into the second, or
\* over the second day, a requested or denied leave of Agent1 over both
\* days, or an approved leave of Agent2 over both days
LeaveRows ==
    {AgentLeave(Agent1, 0, DayLen, Approved),
     AgentLeave(Agent1, 1, DayLen + 1, Approved),
     AgentLeave(Agent1, DayLen, 2 * DayLen, Approved),
     AgentLeave(Agent1, 0, 2 * DayLen, Requested),
     AgentLeave(Agent1, 0, 2 * DayLen, Denied),
     AgentLeave(Agent2, 0, 2 * DayLen, Approved)}

LeaveTables == {<<>>} \cup {<<r>> : r \in LeaveRows}

(* ------------------------ initials of free text ------------------------ *)
MaxText == 7

\* the characters the texts are made of: the marker, a letter, a blank, a
\* separator that is not a blank, and a word character that is not a letter
InitialsAlphabet == {"^", "b", " ", ":", "1"}

InitialsTexts == {None, <<>>} \cup SeqsUpTo(InitialsAlphabet, MaxText)

\* one call of extract_initials_and_strip on the text the thread holds
extract_initials(w) ==
    /\ workers[w].pc = "initials"
    /\ workers' = [workers EXCEPT ![w].pc = "done", ![w].status = 200,
                     ![w].extracted =
                        extract_initials_and_strip(workers[w].call.content)]
    /\ UNCHANGED <<messages, conversations, leaves>>

(* --------------------------- read operations --------------------------- *)
\* An Optional[bool] or Optional[datetime] argument: <<>> is None, <<v>> is v.
\* The arguments of get_messages.
Filter(agent, platform, recipient, is_incoming, start_date, end_date, limit, offset) ==
    [agent |-> agent, platform |-> platform, recipient |-> recipient,
     is_incoming |-> is_incoming, start_date |-> start_date,
     end_date |-> end_date, limit |-> limit, offset |-> offset]

\* the date filters "if start_date" / "if end_date" (a datetime is truthy)
InRange(m, start_date, end_date) ==
    /\ start_date # <<>> => m.timestamp >= start_date[1]
    /\ end_date # <<>> => m.timestamp <= end_date[1]

\* the filters of get_messages with the direction tested by "if is_incoming"
MatchesTruthyDirection(m, f) ==
    /\ Truthy(f.agent) => m.agent = f.agent
    /\ Truthy(f.platform) => m.platform = f.platform
    /\ Truthy(f.recipient) => m.recipient = f.recipient
    /\ f.is_incoming = <<TRUE>> => m.is_incoming = TRUE
    /\ InRange(m, f.start_date, f.end_date)

\* the filters of get_messages: "if agent", "if platform", "if recipient",
\* "if is_incoming is not None", "if start_date", "if end_date"
Matches(m, f) ==
    /\ Truthy(f.agent) => m.agent = f.agent
    /\ Truthy(f.platform) => m.platform = f.platform
    /\ Truthy(f.recipient) => m.recipient = f.recipient
    /\ f.is_incoming # <<>> => m.is_incoming = f.is_incoming[1]
    /\ InRange(m, f.start_date, f.end_date)

\* order_by(desc(Message.timestamp)) over the rows whose ids are in S (the
\* clock gives every row its own timestamp)
RECURSIVE OrderByTimestampDesc(_)
OrderByTimestampDesc(S) ==
    IF S = {} THEN <<>>
    ELSE LET i == CHOOSE x \in S : \A y \in S : messages[y].timestamp <= messages[x].timestamp
         IN <<i>> \o OrderByTimestampDesc(S \ {i})

\* .limit(limit).offset(offset): LIMIT limit OFFSET offset
LimitOffset(s, limit, offset) == SubSeq(s, offset + 1, Min(Len(s), offset + limit))

\* the query get_messages builds from its arguments f, and query.all(): the
\* ids of the rows returned
Query(f) ==
    LimitOffset(OrderByTimestampDesc({i \in DOMAIN messages : Matches(messages[i], f)}),
                f.limit, f.offset)

\* get_messages(**f) called by in-process code
GetMessages(w, f) ==
    LET wk == [Idle EXCEPT !.op = "get_messages"]
    IN /\ workers[w].pc = "idle"
       /\ workers' = [workers EXCEPT ![w] = [Done(wk, "ok", 0) EXCEPT !.rows = Query(f)]]
       /\ UNCHANGED <<messages, conversations, leaves>>

\* the arguments the callers pass: absent, empty and present values
Dates == {<<>>, <<2>>}
Limits == 1..2
Offsets == 0..1

Filters == {Filter(a, p, r, i, s, e, l, o) :
               a \in {None, <<>>, Agent1}, p \in {None, Facebook},
               r \in {None} \cup Recipients, i \in {<<>>, <<TRUE>>, <<FALSE>>},
               s \in Dates, e \in Dates, l \in Limits, o \in Offsets}

get_messages(w) == \E f \in Filters : GetMessages(w, f)

\* query.with_entities(column, count).group_by(column) turned into a dict
GroupCount(S, column) ==
    [k \in {column[i] : i \in S} |-> Cardinality({i \in S : column[i] = k})]

\* func.extract('hour', timestamp): the time of day of a clock tick
Hour(t) == t % DayLen

\* get_message_statistics(start_date, end_date); top_recipients keeps the
\* ten most frequent recipients (no more than ten exist here)
GetMessageStatistics(w, start_date, end_date) ==
    LET wk == [Idle EXCEPT !.op = "get_message_statistics"]
        S == {i \in DOMAIN messages : InRange(messages[i], start_date, end_date)}
        platform == [i \in S |-> messages[i].platform]
        agent == [i \in S |-> messages[i].agent]
        is_incoming == [i \in S |-> messages[i].is_incoming]
        hour == [i \in S |-> Hour(messages[i].timestamp)]
        recipient == [i \in S |-> messages[i].recipient]
    IN /\ workers[w].pc = "idle"
       /\ workers' = [workers EXCEPT ![w] =
              [Done(wk, "ok", 0) EXCEPT !.statistics =
                  Statistics(Cardinality(S), GroupCount(S, platform),
                             GroupCount(S, agent), GroupCount(S, is_incoming),
                             GroupCount(S, hour), GroupCount(S, recipient))]]
       /\ UNCHANGED <<messages, conversations, leaves>>

get_message_statistics(w) ==
    \E start_date \in Dates, end_date \in Dates :
        GetMessageStatistics(w, start_date, end_date)

\* get_agent_performance(agent, start_date, end_date)
GetAgentPerformance(w, agent, start_date, end_date) ==
    LET wk == [Idle EXCEPT !.op = "get_agent_performance"]
        S == {i \in DOMAIN messages : /\ messages[i].agent = agent
                                      /\ InRange(messages[i], start_date, end_date)}
        platform == [i \in S |-> messages[i].platform]
    IN /\ workers[w].pc = "idle"
       /\ workers' = [workers EXCEPT ![w] =
              [Done(wk, "ok", 0) EXCEPT !.performance =
                  Performance(agent, Cardinality(S),
                              Cardinality({i \in S : messages[i].is_incoming}),
                              Cardinality({i \in S : ~messages[i].is_incoming}),
                              GroupCount(S, platform),
                              Cardinality({messages[i].recipient : i \in S}))]]
       /\ UNCHANGED <<messages, conversations, leaves>>

get_agent_performance(w) ==
    \E agent \in Agents, start_date \in Dates, end_date \in Dates :
        GetAgentPerformance(w, agent, start_date, end_date)

\* order_by(desc(Conversation.last_message_at)) over the rows whose ids are
\* in S; rows of the same instant come in the order the database picks
OrderByLastMessageDesc(S) ==
    {s \in SeqsUpTo(S, Cardinality(S)) :
        /\ Len(s) = Cardinality(S)
        /\ \A i, j \in DOMAIN s :
              /\ i # j => s[i] # s[j]
              /\ i < j => conversations[s[i]].last_message_at
                              >= conversations[s[j]].last_message_at}

\* a thread list whose reading marks the rows it returns as read now
get_conversation_threads_touches(w) ==
    LET wk == [Idle EXCEPT !.op = "get_conversation_threads"]
        active == {i \in DOMAIN conversations : conversations[i].is_active}
    IN /\ workers[w].pc = "idle"
       /\ \E limit \in Limits, offset \in Offsets, s \in OrderByLastMessageDesc(active) :
            LET ids == LimitOffset(s, limit, offset)
            IN /\ workers' = [workers EXCEPT ![w] =
                      [Done(wk, "ok", 0) EXCEPT !.threads =
                          [k \in DOMAIN ids |-> conversations[ids[k]]]]]
               /\ conversations' =
                      [i \in DOMAIN conversations |->
                          IF \E k \in DOMAIN ids : ids[k] = i
                          THEN [conversations[i] EXCEPT !.last_message_at = Now]
                          ELSE conversations[i]]
       /\ UNCHANGED <<messages, leaves>>

\* get_conversation_threads(limit, offset): to_dict() of the active rows
get_conversation_threads(w) ==
    LET wk == [Idle EXCEPT !.op = "get_conversation_threads"]
        active == {i \in DOMAIN conversations : conversations[i].is_active}
    IN /\ workers[w].pc = "idle"
       /\ \E limit \in Limits, offset \in Offsets, s \in OrderByLastMessageDesc(active) :
            LET ids == LimitOffset(s, limit, offset)
            IN workers' = [workers EXCEPT ![w] =
                  [Done(wk, "ok", 0) EXCEPT !.threads =
                      [k \in DOMAIN ids |-> conversations[ids[k]]]]]
       /\ UNCHANGED <<messages, conversations, leaves>>

\* column.ilike('%term%'): the term occurs in the text, letter case ignored
ilike(text, term) ==
    \E i \in 0..(Len(text) - Len(term)) :
        SubSeq(upper(text), i + 1, i + Len(term)) = upper(term)

\* search_messages(search_term, agent, platform, limit)
SearchMessages(w, search_term, agent, platform, limit) ==
    LET wk == [Idle EXCEPT !.op = "search_messages"]
        found == {i \in DOMAIN messages :
                     /\ \/ ilike(messages[i].content, search_term)
                        \/ ilike(messages[i].recipient, search_term)
                        \/ ilike(messages[i].agent, search_term)
                     /\ Truthy(agent) => messages[i].agent = agent
                     /\ Truthy(platform) => messages[i].platform = platform}
    IN /\ workers[w].pc = "idle"
       /\ workers' = [workers EXCEPT ![w] =
              [Done(wk, "ok", 0) EXCEPT !.rows =
                  LimitOffset(OrderByTimestampDesc(found), limit, 0)]]
       /\ UNCHANGED <<messages, conversations, leaves>>

\* the terms searched for: a part of the content in the other letter case, a
\* part of an agent name, a part of the recipient, a text no row holds
SearchTerms == {<<"H">>, <<"a", "2">>, <<"1", "0">>, <<"z">>}

search_messages(w) ==
    \E search_term \in SearchTerms, agent \in {None, Agent1},
       platform \in {None, WhatsApp}, limit \in Limits :
        SearchMessages(w, search_term, agent, platform, limit)

\* Direct calls of log_message that fill the tables the read operations
\* query: either agent, platform and direction
MaxRows == 2

QueryCalls == {Call(a, p, r, Text, None, i) :
                  a \in Agents, p \in Platforms, r \in Recipients, i \in BOOLEAN}

query_record(w) ==
    /\ workers[w].pc = "idle"
    /\ Len(messages) + SumPending(Workers) + 1 <= MaxRows
    /\ \E c \in QueryCalls : LogMessage(w, [Idle EXCEPT !.op = "record", !.call = c])

(* ------------------------------ start-up ------------------------------- *)
\* config.get_database_url(): the default SQLite file or a PostgreSQL server
DatabaseUrls == {"sqlite", "postgresql"}

\* init_database, run when the process starts (no request is being handled):
\* with "sqlite" in the URL drop_tables() comes before create_tables()
init_database ==
    /\ \A w \in Workers : workers[w].pc \in {"idle", "done"}
    /\ workers' = [w \in Workers |-> Idle]
    /\ \E db_url \in DatabaseUrls :
          IF db_url = "sqlite"
          THEN /\ messages' = <<>>
               /\ conversations' = <<>>
               /\ leaves' = <<>>
          ELSE UNCHANGED <<messages, conversations, leaves>>

\* the response has been delivered; the thread takes the next request
finish(w) ==
    /\ workers[w].pc = "done"
    /\ workers' = [workers EXCEPT ![w] = Idle]
    /\ UNCHANGED <<messages, conversations, leaves>>

Init ==
    /\ messages = <<>>
    /\ conversations = <<>>
    /\ leaves = <<>>
    /\ workers = [w \in Workers |-> Idle]


Next ==
    \E w \in Workers :
        \/ webhook(w)
        \/ send_message(w)
        \/ resolve_incoming_agent(w)
        \/ log_message(w)
        \/ update_conversation_query(w)
        \/ update_conversation_commit(w)
        \/ finish(w)

Spec == Init /\ [][Next]_vars

\* The same system when the database may fail a commit or a query.
NextFault ==
    \/ Next
    \/ \E w \in Workers :
        \/ log_message_fails(w)
        \/ update_conversation_fails(w)

SpecFault == Init /\ [][NextFault]_vars

\* The message service called directly, with arguments of any shape.
NextRecord ==
    \E w \in Workers :
        \/ record(w)
        \/ update_conversation_query(w)
        \/ update_conversation_commit(w)
        \/ finish(w)

SpecRecord == Init /\ [][NextRecord]_vars

\* The webhook and /send with the verification request of the platform and
\* request bodies that are not well-formed payloads.
NextHttp ==
    \/ Next
    \/ \E w \in Workers :
        \/ webhook_verify(w)
        \/ webhook_malformed(w)

SpecHttp == Init /\ [][NextHttp]_vars

\* The daily reports over the messages that direct calls of the message
\* service have stored.
NextReport ==
    \E w \in Workers :
        \/ team_record(w)
        \/ update_conversation_query(w)
        \/ update_conversation_commit(w)
        \/ agent_daily_excel(w)
        \/ agent_handled_daily_excel(w)
        \/ finish(w)

SpecReport == Init /\ [][NextReport]_vars

\* The team endpoints and the daily reports over a database that holds leave
\* records, while agents send messages.
InitTeam ==
    /\ messages = <<>>
    /\ conversations = <<>>
    /\ leaves \in LeaveTables
    /\ workers = [w \in Workers |-> Idle]

NextTeam ==
    \E w \in Workers :
        \/ send_message(w)
        \/ log_message(w)
        \/ update_conversation_query(w)
        \/ update_conversation_commit(w)
        \/ create_leave(w)
        \/ agent_daily_excel(w)
        \/ agent_handled_daily_excel(w)
        \/ finish(w)

SpecTeam == InitTeam /\ [][NextTeam]_vars

\* extract_initials_and_strip applied to one text of any shape.
InitInitials ==
    /\ messages = <<>>
    /\ conversations = <<>>
    /\ leaves = <<>>
    /\ \E t \in InitialsTexts :
          workers = [w \in Workers |->
                        IF w = 1
                        THEN [Idle EXCEPT !.op = "initials", !.pc = "initials",
                                          !.call.content = t]
                        ELSE Idle]

NextInitials ==
    \E w \in Workers :
        \/ extract_initials(w)
        \/ finish(w)

SpecInitials == InitInitials /\ [][NextInitials]_vars

\* Record calls on one conversation, up to MaxTouches messages.
NextTouch ==
    \E w \in Workers :
        \/ touch_record(w)
        \/ update_conversation_query(w)
        \/ update_conversation_commit(w)
        \/ finish(w)

SpecTouch == Init /\ [][NextTouch]_vars

\* A payload delivered until it is answered 200, over a database whose
\* failures are transient: a commit that is tried again and again succeeds.
NextRedeliver ==
    \E w \in Workers :
        \/ deliver(w)
        \/ redeliver(w)
        \/ resolve_incoming_agent(w)
        \/ log_message(w)
        \/ log_message_fails(w)
        \/ update_conversation_query(w)
        \/ update_conversation_commit(w)

FairRedeliver ==
    \A w \in Workers :
        /\ WF_vars(redeliver(w))
        /\ WF_vars(resolve_incoming_agent(w))
        /\ SF_vars(log_message(w))
        /\ WF_vars(update_conversation_query(w))
        /\ WF_vars(update_conversation_commit(w))

SpecRedeliver == Init /\ [][NextRedeliver]_vars /\ FairRedeliver

\* The webhook and /send while in-process callers record Messenger messages
\* under an agent of their choice.
NextPostback ==
    \/ Next
    \/ \E w \in Workers : facebook_record(w)

SpecPostback == Init /\ [][NextPostback]_vars

\* The webhook and /send across restarts of the process.
NextStartup ==
    \/ Next
    \/ init_database

SpecStartup == Init /\ [][NextStartup]_vars

\* The webhook and /send when the lookup of the router may fail.
NextDegraded ==
    \/ Next
    \/ \E w \in Workers : resolve_incoming_agent_fails(w)

SpecDegraded == Init /\ [][NextDegraded]_vars

\* The read operations and the daily reports over the rows that direct calls
\* of the message service store, with an approved leave in the database.  Every
\* thread records; the first thread also serves the reads, at any point of
\* the other thread's record call.
InitQuery ==
    /\ messages = <<>>
    /\ conversations = <<>>
    /\ leaves = <<AgentLeave(Agent1, 0, DayLen, Approved)>>
    /\ workers = [w \in Workers |-> Idle]

NextQuery ==
    \/ \E w \in Workers :
        \/ query_record(w)
        \/ update_conversation_query(w)
        \/ update_conversation_commit(w)
        \/ finish(w)
    \/ \E w \in {Min(1, NumWorkers)} :
        \/ get_messages(w)
        \/ get_message_statistics(w)
        \/ get_agent_performance(w)
        \/ get_conversation_threads(w)
        \/ search_messages(w)
        \/ agent_daily_excel(w)
        \/ agent_handled_daily_excel(w)

SpecQuery == InitQuery /\ [][NextQuery]_vars

\* The webhook and /send while in-process callers record messages of another
\* recipient under the platform message ids the webhook events carry.
NextDedup ==
    \/ Next
    \/ \E w \in Workers : dedup_record(w)

SpecDedup == Init /\ [][NextDedup]_vars

\* The message service called directly with values longer than the columns.
NextTruncate ==
    \E w \in Workers :
        \/ truncate_record(w)
        \/ update_conversation_query(w)
        \/ update_conversation_commit(w)
        \/ finish(w)

SpecTruncate == Init /\ [][NextTruncate]_vars

(* ======================= properties of the claims ====================== *)
\* no request is being handled
Quiescent == \A w \in Workers : workers[w].pc \in {"idle", "done"}

\* a Message row carries this platform message id
Stored(message_id) ==
    /\ message_id # None
    /\ \E i \in DOMAIN messages : messages[i].message_id = message_id

\* ids of the Message rows of a (recipient, platform) pair
MessagesOf(recipient, platform) ==
    {i \in DOMAIN messages : /\ messages[i].recipient = recipient
                             /\ messages[i].platform = platform}

Max(S) == CHOOSE x \in S : \A y \in S : y <= x

\* thread w takes the step
Steps(w) == workers'[w] # workers[w]

\* C1: every non-null platform message_id is carried by at most one Message
\* row, and a log_message call whose message_id is already stored adds no
\* row, changes no Conversation and ends without reaching the conversation
\* update (so the second of two calls with one message_id adds no count).
C1_IdempotentIngestion ==
    [][/\ \A i, j \in DOMAIN messages' :
             (messages'[i].message_id # None
              /\ messages'[i].message_id = messages'[j].message_id) => i = j
       /\ \A w \in Workers :
             (workers[w].pc = "log_message" /\ Stored(workers[w].call.message_id)
              /\ Steps(w))
             => /\ messages' = messages
                /\ conversations' = conversations
                /\ workers'[w].pc = "done"
                /\ workers'[w].msg = 0]_vars

\* C1 witness: a call with a stored message_id has ended, the id is stored once
C1_Witness ==
    \E w \in Workers :
        /\ workers[w].pc = "done"
        /\ workers[w].result = "IntegrityError"
        /\ \E i \in DOMAIN messages : messages[i].message_id # None

\* C2: once no record call is in progress, a (recipient, platform) pair whose
\* N Message rows all carry (distinct) platform message ids has a Conversation
\* whose message_count is N and whose last_message_at is the greatest
\* timestamp of the N messages.
C2_AggregateConsistency ==
    Quiescent =>
        \A r \in Recipients, p \in Platforms :
            (/\ MessagesOf(r, p) # {}
             /\ \A i \in MessagesOf(r, p) : messages[i].message_id # None)
            => /\ ConversationsOf(r, p) # {}
               /\ \A c \in ConversationsOf(r, p) :
                     /\ conversations[c].message_count = Cardinality(MessagesOf(r, p))
                     /\ conversations[c].last_message_at
                            = Max({messages[i].timestamp : i \in MessagesOf(r, p)})

\* C3: resolve_incoming_agent returns the default agent while the pair has no
\* Conversation (or an empty owner), and right after the record of an outbound
\* message from agent A to the pair has completed it returns A.
C3_StickyRouting ==
    [][/\ \A r \in Recipients, p \in Platforms :
             (\A c \in ConversationsOf(r, p) : ~Truthy(conversations[c].agent))
             => ResolveResults(r, p) = {DefaultAgent}
       /\ \A w \in Workers :
             (/\ workers[w].pc = "commit_conversation"
              /\ ~messages[workers[w].msg].is_incoming
              /\ Steps(w))
             => ResolveResults(messages[workers[w].msg].recipient,
                               messages[workers[w].msg].platform)'
                    = {messages[workers[w].msg].agent}]_vars

\* C4: the Message insert and the Conversation update are one unit: after a
\* finished record call whose Conversation update failed no Message row of the
\* call is stored, and the failure is reported to the caller.
C4_Atomic ==
    \A w \in Workers :
        (workers[w].pc = "done" /\ workers[w].skipped)
        => workers[w].msg = 0 /\ workers[w].result # "ok"

\* C5: a log_message call whose platform message_id is already stored does
\* not raise, and the webhook request that carried it is answered 200.
C5_DuplicateAcknowledged ==
    [][\A w \in Workers :
          (workers[w].pc = "log_message" /\ Stored(workers[w].call.message_id)
           /\ Steps(w) /\ workers'[w].pc = "done")
          => /\ workers'[w].result = "ok"
             /\ workers[w].op = "webhook" => workers'[w].status = 200]_vars

\* C6: when no record call is in progress, every Conversation of a pair has
\* message_count = the number of Message rows of the pair, and the owner and
\* last_message_at of the pair's most recently recorded Message.
C6_ConversationCount ==
    Quiescent =>
        \A r \in Recipients, p \in Platforms :
            MessagesOf(r, p) # {}
            => /\ ConversationsOf(r, p) # {}
               /\ \A c \in ConversationsOf(r, p) :
                     LET last == messages[Max(MessagesOf(r, p))]
                     IN /\ conversations[c].message_count = Cardinality(MessagesOf(r, p))
                        /\ conversations[c].agent = last.agent
                        /\ conversations[c].last_message_at = last.timestamp

\* the event is stored: a row carries its id, or (no id) a row of its kind exists
EventStored(platform, ev) ==
    IF ev.id # None THEN Stored(ev.id)
    ELSE \E i \in MessagesOf(ev.from, platform) :
            messages[i].is_incoming /\ messages[i].message_id = None

\* C7: when POST /webhook has been answered 200, every message event of the
\* payload (every entry, every change) is stored as a Message row.
C7_NoSilentDrop ==
    \A w \in Workers :
        (workers[w].pc = "done" /\ workers[w].op = "webhook" /\ workers[w].status = 200)
        => \A k \in DOMAIN PayloadEvents(workers[w].platform, workers[w].entry) :
              EventStored(workers[w].platform,
                          PayloadEvents(workers[w].platform, workers[w].entry)[k])

\* C8: once a Conversation has a non-empty owner, the record of an inbound
\* event does not change the owner.
C8_InboundKeepsOwner ==
    [][\A w \in Workers :
          (/\ workers[w].pc = "commit_conversation"
           /\ messages[workers[w].msg].is_incoming
           /\ Steps(w))
          => \A c \in DOMAIN conversations :
                Truthy(conversations[c].agent)
                => conversations'[c].agent = conversations[c].agent]_vars

\* C9: a step of a record call on one (recipient, platform) pair changes and
\* adds Conversation rows of that pair only, so the other platform's row of
\* the same recipient keeps owner, message_count and last_message_at; and
\* resolve_incoming_agent answers with an owner of a row of its own pair.
C9_CrossPlatformIndependence ==
    [][\A w \in Workers :
          Steps(w)
          => /\ Len(conversations') >= Len(conversations)
             /\ \A c \in DOMAIN conversations' :
                   (c \notin DOMAIN conversations \/ conversations'[c] # conversations[c])
                   => /\ workers[w].msg \in DOMAIN messages
                      /\ conversations'[c].platform = messages[workers[w].msg].platform
                      /\ conversations'[c].recipient = messages[workers[w].msg].recipient
             /\ (workers[w].pc = "resolve")
                => \/ /\ workers'[w].call.agent = DefaultAgent
                      /\ \A c \in DOMAIN conversations :
                            (/\ conversations[c].platform = workers[w].call.platform
                             /\ conversations[c].recipient = workers[w].call.recipient)
                            => ~Truthy(conversations[c].agent)
                   \/ \E c \in DOMAIN conversations :
                         /\ conversations[c].platform = workers[w].call.platform
                         /\ conversations[c].recipient = workers[w].call.recipient
                         /\ conversations[c].agent = workers'[w].call.agent]_vars

\* C9 witness: one recipient has a Conversation on each platform, with
\* different owners, the Messenger one from a routed inbound message
C9_Witness ==
    \E c, d \in DOMAIN conversations :
        /\ conversations[c].recipient = conversations[d].recipient
        /\ conversations[c].platform = WhatsApp
        /\ conversations[d].platform = Facebook
        /\ conversations[c].agent # conversations[d].agent
        /\ \E i \in MessagesOf(conversations[d].recipient, Facebook) :
              /\ messages[i].is_incoming
              /\ messages[i].message_id # None
              /\ messages[i].timestamp > conversations[c].last_message_at

\* a log_message argument that is missing, empty or blank
Blank(s) == s = None \/ strip(s) = <<>>

\* C10: a log_message call whose agent, platform, recipient or content is
\* missing, empty or blank fails with a validation error, inserts no Message
\* row and creates or changes no Conversation row.
C10_ValidationBeforeWrite ==
    [][\A w \in Workers, c \in Calls :
          (/\ Blank(c.agent) \/ Blank(c.platform) \/ Blank(c.recipient) \/ Blank(c.content)
           /\ workers[w].pc = "idle"
           /\ LogMessage(w, [Idle EXCEPT !.op = "record", !.call = c]))
          => /\ messages' = messages
             /\ conversations' = conversations
             /\ workers'[w].result = "ValueError"]_vars

C12_LeaveLeadTime ==
    [][\A w \in Workers, rq \in LeaveRequests :
          (/\ CreateLeave(w, rq)
           /\ Truthy(rq.agent) /\ Truthy(strip(rq.agent))
           /\ IsIsoDate(rq.start_date) /\ IsIsoDate(rq.end_date))
          => IF fromisoformat(rq.start_date) < Now + 7 * DayLen
             THEN /\ workers'[w].status = 400
                  /\ leaves' = leaves
             ELSE /\ workers'[w].status = 200
                  /\ leaves' = Append(leaves,
                        AgentLeave(strip(rq.agent), fromisoformat(rq.start_date),
                                   fromisoformat(rq.end_date),
                                   IF Truthy(rq.status) THEN rq.status
                                   ELSE Approved))]_vars

\* C13: a call of resolve_incoming_agent leaves every Message row and every
\* Conversation row unchanged, whether or not the pair has a Conversation.
C13_RouterPureRead ==
    [][\A w \in Workers :
          (workers[w].pc = "resolve" /\ Steps(w))
          => /\ messages' = messages
             /\ conversations' = conversations]_vars

\* C13 witness: the router has answered with the owner of an existing
\* Conversation, and the tables hold rows it could have changed
C13_Witness ==
    \E w \in Workers :
        /\ workers[w].op = "webhook" /\ workers[w].pc = "log_message"
        /\ workers[w].call.agent = Agent2
        /\ ConversationsOf(workers[w].call.recipient, workers[w].call.platform) # {}
        /\ messages # <<>>

\* C14: GET /webhook with hub.verify_token equal to the configured token
\* answers 200 with exactly hub.challenge as body; with any other token it
\* answers 401 and does not echo the challenge.
C14_WebhookVerification ==
    [][\A w \in Workers, verify_token \in Tokens, challenge \in Challenges :
          (/\ Truthy(verify_token) /\ Truthy(challenge)
           /\ WebhookGet(w, verify_token, challenge))
          => IF verify_token = VerifyToken
             THEN /\ workers'[w].status = 200
                  /\ workers'[w].body = challenge
             ELSE /\ workers'[w].status = 401
                  /\ workers'[w].body # challenge]_vars

\* C15: POST /webhook with an empty body, unparseable JSON, an unknown object
\* type or a payload failing the structure check answers 400, stores no
\* Message and changes no Conversation.
C15_MalformedIsClientError ==
    [][\A w \in Workers, data \in MalformedBodies :
          WebhookPost(w, data)
          => /\ workers'[w].status = 400
             /\ messages' = messages
             /\ conversations' = conversations]_vars

\* C16: the message count a daily report gives for (agent, day, direction)
\* is the number of Message rows with that agent, that direction and
\* start-of-day <= timestamp < start-of-next-day, and the recipients it lists
\* are exactly the distinct recipients of those rows.
C16_DailyReportWindow ==
    [][\A w \in Workers, agent_name \in Agents, t \in 1..(2 * DayLen - 1),
          is_incoming \in BOOLEAN :
          (/\ workers[w].pc = "idle"
           /\ workers'[w].op = (IF is_incoming THEN "handled" ELSE "daily")
           /\ DailyExcel(w, workers'[w].op, is_incoming, agent_name, isoformat(t)))
          => LET first == (t \div DayLen) * DayLen
                 counted == {i \in DOMAIN messages :
                                /\ messages[i].agent = agent_name
                                /\ messages[i].is_incoming = is_incoming
                                /\ first <= messages[i].timestamp
                                /\ messages[i].timestamp < first + DayLen}
                 listed == workers'[w].report.phone_numbers
             IN /\ workers'[w].status = 200
                /\ workers'[w].report.messages_handled = Cardinality(counted)
                /\ {listed[k] : k \in DOMAIN listed}
                      = {messages[i].recipient : i \in counted}
                /\ \A k, l \in DOMAIN listed : listed[k] = listed[l] => k = l]_vars

\* C17: a daily report marks the agent on leave exactly when an approved
\* leave of the agent has start_date <= start-of-day < end_date; requested
\* and denied leaves, and leaves ending at the day's start, do not count.
C17_OnLeaveFlag ==
    [][\A w \in Workers, agent_name \in Agents, t \in 1..(2 * DayLen - 1),
          is_incoming \in BOOLEAN :
          (/\ workers[w].pc = "idle"
           /\ workers'[w].op = (IF is_incoming THEN "handled" ELSE "daily")
           /\ DailyExcel(w, workers'[w].op, is_incoming, agent_name, isoformat(t)))
          => LET first == (t \div DayLen) * DayLen
             IN workers'[w].report.on_leave
                  <=> \E i \in DOMAIN leaves :
                         /\ leaves[i].agent = agent_name
                         /\ leaves[i].status = Approved
                         /\ leaves[i].start_date <= first
                         /\ first < leaves[i].end_date]_vars

\* C17 witness: a report of the second day marks Agent1 on leave, the table
\* holding an approved leave that starts inside the first day
C17_Witness ==
    \E w \in Workers :
        /\ workers[w].pc = "done" /\ workers[w].op \in {"daily", "handled"}
        /\ workers[w].status = 200
        /\ workers[w].report.on_leave
        /\ workers[w].report.date = DayLen
        /\ \E i \in DOMAIN leaves : leaves[i].start_date = 1

\* C18: extract_initials_and_strip returns (text without the tag, upper-cased
\* initials) when the trimmed text starts or ends with a caret followed by 2 to
\* 5 letters, with the ':', '-' and blanks next to the tag removed as well; it
\* returns (trimmed text, None) when neither end has such a tag; a leading tag
\* wins over a trailing one and only that one tag is removed.
\* the trimmed text t starts with a tag of k letters
C18_LeadTag(t, k) ==
    /\ k + 1 <= Len(t)
    /\ t[1] = "^"
    /\ \A i \in 2..(k + 1) : IsLetter(t[i])
    /\ k + 1 = Len(t) \/ ~IsWord(t[k + 2])

\* the trimmed text t ends with a tag of k letters
C18_TrailTag(t, k) ==
    /\ k + 1 <= Len(t)
    /\ t[Len(t) - k] = "^"
    /\ \A i \in (Len(t) - k + 1)..Len(t) : IsLetter(t[i])

RECURSIVE C18_DropLeadSeps(_)
C18_DropLeadSeps(s) ==
    IF s # <<>> /\ IsSep(Head(s)) THEN C18_DropLeadSeps(Tail(s)) ELSE s

RECURSIVE C18_DropTrailSeps(_)
C18_DropTrailSeps(s) ==
    IF s # <<>> /\ IsSep(s[Len(s)])
    THEN C18_DropTrailSeps(SubSeq(s, 1, Len(s) - 1)) ELSE s

C18_TagLengths == MinInitials..MaxInitials

C18_Expected(content) ==
    IF content = None \/ content = <<>> THEN Extract(<<>>, None)
    ELSE
    LET t == strip(content)
    IN IF \E k \in C18_TagLengths : C18_LeadTag(t, k)
       THEN LET k == CHOOSE x \in C18_TagLengths : C18_LeadTag(t, x)
            IN Extract(C18_DropLeadSeps(SubSeq(t, k + 2, Len(t))),
                       upper(SubSeq(t, 2, k + 1)))
       ELSE IF \E k \in C18_TagLengths : C18_TrailTag(t, k)
       THEN LET k == CHOOSE x \in C18_TagLengths : C18_TrailTag(t, x)
            IN Extract(C18_DropTrailSeps(SubSeq(t, 1, Len(t) - k - 1)),
                       upper(SubSeq(t, Len(t) - k + 1, Len(t))))
       ELSE Extract(t, None)

\* C18: every call of extract_initials_and_strip returns the pair above
C18_InitialsTag ==
    \A w \in Workers :
        workers[w].op = "initials" /\ workers[w].pc = "done"
        => workers[w].extracted = C18_Expected(workers[w].call.content)

\* a text with a tag at both ends: the leading one was taken, the trailing one
\* is still in the text
C18_Witness ==
    \E w \in Workers :
        /\ workers[w].op = "initials" /\ workers[w].pc = "done"
        /\ workers[w].call.content = <<"^", "b", "b", " ", "^", "b", "b">>
        /\ workers[w].extracted = Extract(<<"^", "b", "b">>, <<"B", "B">>)

\* C19: in every reachable state at most one Conversation row exists for a
\* (recipient, platform) pair, also when two record calls for a pair without a
\* Conversation run at the same time.
C19_OneConversationPerPair ==
    \A i, j \in 1..Len(conversations) :
        /\ conversations[i].recipient = conversations[j].recipient
        /\ conversations[i].platform = conversations[j].platform
        => i = j

\* C20: the touches of concurrent record calls on one (recipient, platform)
\* key are linearizable in commit order: every conversation update is one
\* touch applied to the Conversation as it is committed at that moment
\* (created with count 1 when the pair has none, otherwise count + 1, owner and
\* last_message_at of the call's Message), and a touch never follows the touch
\* of a Message that was committed later, so the final owner is the agent of
\* the Message committed last.
C20_LinearizableTouches ==
    [][\A w \in Workers :
          /\ workers[w].pc = "commit_conversation"
          /\ workers'[w].pc # "commit_conversation"
          => LET m == messages[workers[w].msg]
                 found == ConversationsOf(m.recipient, m.platform)
             IN IF found = {}
                THEN conversations' = Append(conversations,
                         Conversation(m.recipient, m.platform, m.agent,
                                      m.timestamp, 1))
                ELSE /\ Len(conversations') = Len(conversations)
                     /\ \A c \in found :
                           /\ conversations[c].last_message_at <= m.timestamp
                           /\ conversations'[c] =
                                 [conversations[c] EXCEPT
                                     !.agent = m.agent,
                                     !.last_message_at = m.timestamp,
                                     !.message_count = @ + 1]]_vars

\* C21: message_count never decreases: in every step, every Conversation row
\* is still there and its message_count is at least what it was.
C21_CountNeverDecreases ==
    [][\A c \in DOMAIN conversations :
          /\ c \in DOMAIN conversations'
          /\ conversations'[c].message_count >= conversations[c].message_count]_vars

\* the payload of thread w has been answered 200 and each of its messages is
\* stored exactly once
C22_Acknowledged(w) ==
    /\ workers[w].op = "webhook" /\ workers[w].pc = "done" /\ workers[w].status = 200
    /\ LET evs == PayloadEvents(workers[w].platform, workers[w].entry)
       IN \A k \in 1..Len(evs) :
             Cardinality({i \in DOMAIN messages : messages[i].message_id = evs[k].id}) = 1

\* C22: a payload of several messages that is delivered again until it is
\* answered 200, with transient storage failures, is eventually answered 200
\* with every message of it stored exactly once, also when an earlier attempt
\* stored some of its messages.
C22_RedeliveryConverges ==
    \A w \in Workers : (workers[w].op = "webhook") ~> C22_Acknowledged(w)

\* C23: no torn read: what a reader (the router included) finds in a
\* Conversation row belongs to one committed touch: the owner and the
\* last_message_at of the row are the agent and the timestamp of one and the
\* same Message of the pair, and message_count is at least 1.
C23_NoTornRead ==
    \A c \in DOMAIN conversations :
        /\ conversations[c].message_count >= 1
        /\ \E i \in MessagesOf(conversations[c].recipient, conversations[c].platform) :
              /\ messages[i].agent = conversations[c].agent
              /\ messages[i].timestamp = conversations[c].last_message_at

\* C24: a Messenger postback is routed like the other inbound events: when
\* the handler turns to a postback, the agent it records the event under is an
\* agent resolve_incoming_agent returns for (sender, Facebook) at that moment,
\* so the record of a postback leaves the owner of an owned conversation.
C24_PostbackRouted ==
    [][\A w \in Workers :
          (/\ workers'[w].pc = "log_message"
           /\ workers'[w].op = "webhook"
           /\ Steps(w)
           /\ Head(workers'[w].todo).kind = "postback")
          => \A r \in Recipients, p \in Platforms :
                workers'[w].call.recipient = r /\ workers'[w].call.platform = p
                => workers'[w].call.agent \in ResolveResults(r, p)']_vars

\* C25: stored history is never removed: in every step, start-up included,
\* every committed Message row is still there as it was written and every
\* committed Conversation row is still there for its pair.
C25_HistoryKept ==
    [][/\ \A i \in DOMAIN messages :
             i \in DOMAIN messages' /\ messages'[i] = messages[i]
       /\ \A c \in DOMAIN conversations :
             /\ c \in DOMAIN conversations'
             /\ conversations'[c].recipient = conversations[c].recipient
             /\ conversations'[c].platform = conversations[c].platform]_vars

\* C26: the block run under get_db_session() commits its pending writes when
\* it exits normally: when POST /team/leaves is answered 200, the AgentLeave
\* row it added is stored, visible to every later request.
C26_SessionCommits ==
    [][\A w \in Workers, rq \in LeaveRequests :
          (/\ workers[w].pc = "idle"
           /\ workers'[w].op = "create_leave"
           /\ workers'[w].status = 200
           /\ CreateLeave(w, rq))
          => \E i \in DOMAIN leaves' :
                leaves'[i] = AgentLeave(strip(rq.agent), fromisoformat(rq.start_date),
                                        fromisoformat(rq.end_date),
                                        IF Truthy(rq.status) THEN rq.status
                                        ELSE Approved)]_vars

\* C27: POST /send records the outgoing Message only after the Cloud API
\* accepted it: when the body is invalid or the Cloud API answers with a
\* status of 400 or more, the request ends there with 400 or 502, no record
\* call is started, no Message is stored and no Conversation changes; when
\* the send succeeded the record call is started for the sending agent.
C27_RecordOnConfirmation ==
    [][\A w \in Workers, agent \in SendAgents, to \in SendNumbers,
          sent \in BOOLEAN, message_id \in OptMessageIds :
          (/\ workers[w].pc = "idle"
           /\ workers'[w].op = "send"
           /\ SendMessage(w, agent, to, sent, message_id))
          => /\ messages' = messages
             /\ conversations' = conversations
             /\ IF agent = <<>> \/ to = BadPhone \/ ~sent
                THEN /\ workers'[w].pc = "done"
                     /\ workers'[w].status \in {400, 502}
                     /\ workers'[w].status = 502 <=> (agent # <<>> /\ to # BadPhone)
                ELSE /\ workers'[w].pc = "log_message"
                     /\ workers'[w].call.agent = agent
                     /\ workers'[w].call.recipient = to
                     /\ ~workers'[w].call.is_incoming]_vars

\* a send the Cloud API refused, to a recipient whose Conversation exists
C27_Witness ==
    \E w \in Workers :
        /\ workers[w].op = "send" /\ workers[w].pc = "done"
        /\ workers[w].status = 502
        /\ Len(messages) = 1 /\ ~messages[1].is_incoming
        /\ Len(conversations) = 1 /\ conversations[1].message_count = 1

\* C28: the touch of a record call that found the Conversation of its pair
\* overwrites last_message_at of that row with the timestamp of its Message
\* (earlier than the stored one or not), sets the owner to the Message's
\* agent and adds exactly 1 to message_count; every other Conversation row
\* stays as it is and no row is added.
C28_TouchExisting ==
    [][\A w \in Workers :
          (/\ workers[w].pc = "commit_conversation"
           /\ workers[w].conv.id # 0
           /\ Steps(w))
          => LET m == messages[workers[w].msg]
                 c == workers[w].conv.id
             IN /\ Len(conversations') = Len(conversations)
                /\ conversations'[c] =
                      [conversations[c] EXCEPT
                          !.agent = m.agent,
                          !.last_message_at = m.timestamp,
                          !.message_count = @ + 1]
                /\ \A d \in DOMAIN conversations :
                      d # c => conversations'[d] = conversations[d]]_vars

C31_ReadOps ==
    {"get_messages", "get_message_statistics", "get_agent_performance",
     "get_conversation_threads", "search_messages", "daily", "handled"}

\* C31: a read operation (get_messages, get_message_statistics,
\* get_agent_performance, get_conversation_threads, search_messages, a daily
\* report) leaves every Message, Conversation and Leave row as it was, so the
\* record call after it starts from the state it would have found without it.
C31_ReadsWriteNothing ==
    [][\A w \in Workers :
          (workers[w].pc = "idle" /\ workers'[w].op \in C31_ReadOps)
          => UNCHANGED <<messages, conversations, leaves>>]_vars

\* every kind of read has run over stored rows: a thread list that returned a
\* conversation, with a Message and a Leave row in the database
C31_Witness ==
    /\ workers[1].op = "get_conversation_threads"
    /\ workers[1].pc = "done"
    /\ Len(workers[1].threads) >= 1
    /\ messages # <<>>
    /\ leaves # <<>>

\* C32: the message_id alone keys the deduplication: when a Message of the
\* other platform or of another recipient already carries the message_id of an
\* event, logging the event stores no Message row, changes no Conversation
\* row and does not reach the conversation update.
C32_GlobalDedup ==
    [][\A w \in Workers :
          (/\ workers[w].pc = "log_message"
           /\ Steps(w)
           /\ workers[w].call.message_id # None
           /\ \E i \in DOMAIN messages :
                 /\ messages[i].message_id = workers[w].call.message_id
                 /\ \/ messages[i].platform # workers[w].call.platform
                    \/ messages[i].recipient # workers[w].call.recipient)
          => /\ messages' = messages
             /\ conversations' = conversations
             /\ workers'[w].pc = "done"
             /\ workers'[w].msg = 0]_vars

\* a Messenger event was refused because of a stored WhatsApp Message of
\* another recipient, and the sender's Messenger conversation does not exist
C32_Witness ==
    \E w \in Workers :
        /\ workers[w].op = "webhook"
        /\ workers[w].platform = Facebook
        /\ workers[w].pc = "done"
        /\ workers[w].result = "IntegrityError"
        /\ messages # <<>>
        /\ \A i \in DOMAIN messages :
              /\ messages[i].platform = WhatsApp
              /\ messages[i].recipient = OtherRecipient
        /\ \A r \in Recipients : ConversationsOf(r, Facebook) = {}

\* the text s is the text t cut to at most n characters
C33_CutOf(s, t, n) ==
    /\ Len(s) = (IF Len(t) <= n THEN Len(t) ELSE n)
    /\ \A i \in 1..Len(s) : s[i] = t[i]

\* C33: record stores agent, platform and recipient as the trimmed argument
\* cut to at most 100, 50 and 50 characters, and the conversation update of
\* the call changes or creates exactly one Conversation row, whose recipient
\* and platform are the ones stored in the Message row.
C33_TruncatedAndKeyed ==
    [][\A w \in Workers :
          /\ (workers[w].pc = "idle" /\ workers'[w].pc = "update_conversation")
             => LET c == workers'[w].call
                    m == messages'[workers'[w].msg]
                IN /\ Len(messages') = Len(messages) + 1
                   /\ workers'[w].msg = Len(messages')
                   /\ C33_CutOf(m.agent, strip(c.agent), 100)
                   /\ C33_CutOf(m.platform, strip(c.platform), 50)
                   /\ C33_CutOf(m.recipient, strip(c.recipient), 50)
          /\ (workers[w].pc = "commit_conversation" /\ Steps(w))
             => LET m == messages[workers[w].msg]
                IN \E i \in DOMAIN conversations' :
                      /\ conversations'[i].recipient = m.recipient
                      /\ conversations'[i].platform = m.platform
                      /\ conversations'[i].last_message_at = m.timestamp
                      /\ IF i \in DOMAIN conversations
                         THEN /\ conversations[i].recipient = m.recipient
                              /\ conversations[i].platform = m.platform
                              /\ Len(conversations') = Len(conversations)
                         ELSE Len(conversations') = Len(conversations) + 1
                      /\ \A j \in DOMAIN conversations :
                            j # i => conversations'[j] = conversations[j]]_vars

\* a call whose agent, platform and recipient are all longer than the columns
\* has stored them cut to 100, 50 and 50 characters and is about to touch the
\* Conversation that a call with another long recipient created
C33_Witness ==
    \E w \in Workers :
        /\ workers[w].pc = "commit_conversation"
        /\ workers[w].call.agent = LongAgent
        /\ workers[w].call.platform = LongPlatform
        /\ workers[w].call.recipient = LongRecipient("2")
        /\ Len(messages[workers[w].msg].agent) = 100
        /\ Len(messages[workers[w].msg].platform) = 50
        /\ Len(messages[workers[w].msg].recipient) = 50
        /\ workers[w].conv.id # 0
        /\ conversations[workers[w].conv.id].recipient = messages[workers[w].msg].recipient
        /\ conversations[workers[w].conv.id].platform = messages[workers[w].msg].platform
        /\ conversations[workers[w].conv.id].message_count = 1

\* the Message m satisfies every filter that the arguments f supply
C34_Satisfies(m, f) ==
    /\ (f.agent # None /\ f.agent # <<>>) => m.agent = f.agent
    /\ (f.platform # None /\ f.platform # <<>>) => m.platform = f.platform
    /\ (f.recipient # None /\ f.recipient # <<>>) => m.recipient = f.recipient
    /\ f.is_incoming = <<TRUE>> => m.is_incoming
    /\ f.is_incoming = <<FALSE>> => ~m.is_incoming
    /\ \A k \in DOMAIN f.start_date : f.start_date[k] <= m.timestamp
    /\ \A k \in DOMAIN f.end_date : m.timestamp <= f.end_date[k]

\* how many of the Messages in S are newer than Message i
C34_Newer(S, i) ==
    Cardinality({j \in S : messages[j].timestamp > messages[i].timestamp})

\* C34: whenever a thread can call get_messages, for every choice of arguments
\* it returns only Messages that satisfy every supplied filter (is_incoming =
\* False included), newest first, no Message twice, at most limit of them, and
\* a stored Message that satisfies the filters is left out only when it is
\* among the first offset ones or beyond offset + limit.
C34_GetMessagesFilters ==
    (\E w \in Workers : workers[w].pc = "idle")
    => \A f \in Filters :
          LET rows == Query(f)
              all == {i \in DOMAIN messages : C34_Satisfies(messages[i], f)}
          IN /\ \A k \in DOMAIN rows : rows[k] \in all
             /\ \A k, l \in DOMAIN rows :
                   k < l => /\ rows[k] # rows[l]
                            /\ messages[rows[k]].timestamp
                                   >= messages[rows[l]].timestamp
             /\ Len(rows) <= f.limit
             /\ \A i \in all :
                   (\A k \in DOMAIN rows : rows[k] # i)
                   => \/ C34_Newer(all, i) < f.offset
                      \/ C34_Newer(all, i) >= f.offset + f.limit

\* get_messages returned the older, outgoing one of two stored Messages and
\* not the newer, incoming one
C34_Witness ==
    /\ workers[1].op = "get_messages"
    /\ workers[1].pc = "done"
    /\ workers[1].rows = <<1>>
    /\ Len(messages) = 2
    /\ ~messages[1].is_incoming
    /\ messages[2].is_incoming

====
